---- MODULE Spec2Model ----
(***************************************************************************)
(* Model of the PDF summariser: the chunker (app/services/chunker.py), the *)
(* map-reduce orchestrator summarize_text and the shared rate limiter      *)
(* (app/services/summarizer.py), and the upload handler (app/main.py).     *)
(*                                                                         *)
(* A text is modelled by its shape, a record                               *)
(*     [lead, paras, trail]                                                *)
(* lead/trail: number of leading/trailing whitespace characters,           *)
(* paras: the paragraphs, separated by "\n\n"; a paragraph is a piece      *)
(* <<id, from, to>>: the characters from..to-1 of the separator-free run   *)
(* of non-blank characters number id.                                      *)
(* Prompts and generated texts are token sequences (sequences of numbers). *)
(***************************************************************************)
EXTENDS Integers, Sequences, FiniteSets, TLC

\* ------------------------------------------------------------------ bounds
MaxChunks == 11      \* largest number of chunks, every schedule explored (Spec)
MaxFailChunks == 15  \* largest number of chunks of a run whose calls can fail (SpecFail)
MaxConcurrent == 6   \* most calls of a gather explored in every schedule (SpecFail)
MaxInFlight == 2     \* requests of a larger gather with the provider at a time (SpecFail)
MaxSeqChunks == 101  \* largest number of chunks, in-order schedule (SpecSeq)
MaxPad == 1          \* most leading / trailing blanks of an input text
MaxParas == 3        \* most paragraphs of a text given to the chunker (SpecChunker)
MaxUploadChunks == 3 \* largest number of chunks of an uploaded document (SpecUpload)
ParaLen == 3000      \* length of the paragraphs of the input texts
NumCallers == 2      \* generation calls that can be under way at once (SpecLimiter)
TicksPerToken == 3   \* clock ticks in one refill period of 60 / RATE_LIMIT_RPM s
MaxGrants == 6       \* the clock stops MaxGrants refill periods after it started

\* -------------------------------------------------------- program constants
CHUNK_SIZE == 4000
CHUNK_OVERLAP == 200
max_summaries_per_reduce == 10
RATE_LIMIT_RPM == 5
max_bucket_size == 1

\* tokens of the prompt / response texts (all above every text offset)
MAP_SYSTEM == 900001
REDUCE_SYSTEM == 900002
SUMMARY_SEPARATOR == 900003
RESPONSE_END == 900004
NO_CONTENT == 900005
SEP_LEN == 2         \* len("\n\n"), the paragraph separator

\* ------------------------------------------------------------ text helpers
Min(a, b) == IF a < b THEN a ELSE b

RECURSIVE SumLens(_)
SumLens(ps) ==
  IF ps = <<>> THEN 0 ELSE (ps[1][3] - ps[1][2]) + SumLens(Tail(ps))

\* len(text)
TextLen(t) ==
  t.lead + t.trail + SumLens(t.paras)
    + (IF Len(t.paras) > 1 THEN SEP_LEN * (Len(t.paras) - 1) ELSE 0)

StripNothing(t) == t

\* text.strip()
Strip(t) == [lead |-> 0, paras |-> t.paras, trail |-> 0]

IsBlankNoStrip(t) == TextLen(t) = 0

\* `not text or not text.strip()`
IsBlank(t) == TextLen(t) = 0 \/ TextLen(Strip(t)) = 0

RECURSIVE Flatten(_)
Flatten(ss) == IF ss = <<>> THEN <<>> ELSE ss[1] \o Flatten(Tail(ss))

\* the characters of a text, as tokens
TextTokens(t) == <<t.lead>> \o Flatten(t.paras) \o <<t.trail>>

\* ---------------------------------------------------------------- chunker
\* A split is [p |-> piece, pre |-> n]: a piece preceded by n separator
\* characters (the splitter keeps the separator at the head of the split).
SplitLen(s) == s.pre + (s.p[3] - s.p[2])

RECURSIVE SplitsLen(_)
SplitsLen(ss) == IF ss = <<>> THEN 0 ELSE SplitLen(ss[1]) + SplitsLen(Tail(ss))

RECURSIVE Pieces(_)
Pieces(ss) == IF ss = <<>> THEN <<>> ELSE <<ss[1].p>> \o Pieces(Tail(ss))

\* _join_docs: the splits joined and stripped (the leading separator of the
\* first split goes); None (here <<>>) when nothing is left
JoinDocs(cur) ==
  IF SumLens(Pieces(cur)) = 0 THEN <<>>
  ELSE << [lead |-> 0, paras |-> Pieces(cur), trail |-> 0] >>

\* the `while total > overlap or (total + len > chunk_size and total > 0)` loop
RECURSIVE PopOverlap(_, _)
PopOverlap(cur, len) ==
  LET total == SplitsLen(cur) IN
  IF total > CHUNK_OVERLAP \/ (total + len > CHUNK_SIZE /\ total > 0)
  THEN PopOverlap(Tail(cur), len)
  ELSE cur

\* RecursiveCharacterTextSplitter._merge_splits with separator ""
RECURSIVE MergeFrom(_, _, _)
MergeFrom(splits, i, cur) ==
  IF i > Len(splits) THEN JoinDocs(cur)
  ELSE LET d == splits[i]
           len == SplitLen(d)
       IN IF SplitsLen(cur) + len > CHUNK_SIZE /\ cur # <<>>
          THEN JoinDocs(cur)
                 \o MergeFrom(splits, i + 1, Append(PopOverlap(cur, len), d))
          ELSE MergeFrom(splits, i + 1, Append(cur, d))

_merge_splits(splits) == MergeFrom(splits, 1, <<>>)

\* (the next window CHUNK_OVERLAP after the end of the last one)
RECURSIVE WindowsSkipping(_, _)
WindowsSkipping(s, total) ==
  IF total - s <= CHUNK_SIZE THEN << <<s, total>> >>
  ELSE << <<s, s + CHUNK_SIZE>> >>
         \o WindowsSkipping(s + (CHUNK_SIZE + CHUNK_OVERLAP), total)

\* the character windows of a stream of `total` characters merged one by one:
\* CHUNK_SIZE characters each, the next one CHUNK_OVERLAP before the end
RECURSIVE Windows(_, _)
Windows(s, total) ==
  IF total - s <= CHUNK_SIZE THEN << <<s, total>> >>
  ELSE << <<s, s + CHUNK_SIZE>> >> \o Windows(s + (CHUNK_SIZE - CHUNK_OVERLAP), total)

\* a separator-free split too long for a chunk, split with separator "":
\* its windows, each stripped of the `pre` newlines the stream starts with
RECURSIVE WindowDocs(_, _, _)
WindowDocs(p, pre, ws) ==
  IF ws = <<>> THEN <<>>
  ELSE LET a == ws[1][1]
           b == ws[1][2]
           from == p[2] + (IF a > pre THEN a - pre ELSE 0)
           to == p[2] + (b - pre)
       IN (IF to > from
           THEN << [lead |-> 0, paras |-> << <<p[1], from, to>> >>, trail |-> 0] >>
           ELSE <<>>)
          \o WindowDocs(p, pre, Tail(ws))

HardSplit(p, pre) == WindowDocs(p, pre, Windows(0, pre + (p[3] - p[2])))

\* (a splitter without the separator "": the long split is kept whole)
SplitLongWhole(s) == << [lead |-> 0, paras |-> <<s.p>>, trail |-> 0] >>

\* _split_text of one paragraph split that is not shorter than CHUNK_SIZE:
\* the first paragraph has no separator left and is cut by characters; a
\* later one starts with "\n\n", is first split at "\n" into "\n" and
\* "\n" + paragraph, and the second part is cut by characters when it is
\* not shorter than CHUNK_SIZE either
SplitLong(s) ==
  IF s.pre = 0 THEN HardSplit(s.p, 0)
  ELSE IF 1 + (s.p[3] - s.p[2]) < CHUNK_SIZE
       THEN << [lead |-> 0, paras |-> <<s.p>>, trail |-> 0] >>
       ELSE HardSplit(s.p, 1)

\* RecursiveCharacterTextSplitter._split_text at the "\n\n" level
RECURSIVE SplitFrom(_, _, _)
SplitFrom(splits, i, good) ==
  IF i > Len(splits)
  THEN (IF good # <<>> THEN _merge_splits(good) ELSE <<>>)
  ELSE IF SplitLen(splits[i]) < CHUNK_SIZE
       THEN SplitFrom(splits, i + 1, Append(good, splits[i]))
       ELSE (IF good # <<>> THEN _merge_splits(good) ELSE <<>>)
              \o SplitLong(splits[i])
              \o SplitFrom(splits, i + 1, <<>>)

ParaSplits(t) ==
  [i \in 1..Len(t.paras) |->
     [p |-> t.paras[i], pre |-> IF i = 1 THEN 0 ELSE SEP_LEN]]

split_text(t) == SplitFrom(ParaSplits(t), 1, <<>>)

\* split_text_into_chunks
split_text_into_chunks(text) ==
  IF IsBlank(text) THEN <<>>
  ELSE LET t == Strip(text)
       IN IF TextLen(t) <= CHUNK_SIZE THEN <<t>> ELSE split_text(t)

\* ------------------------------------------------------------ orchestrator
VARIABLES
  text,        \* the argument of summarize_text
  pc,          \* "init", "single", "map", "reduce", "final", "done", "failed"
  chunks,      \* chunks (line 119)
  summaries,   \* chunk_summaries
  calls,       \* the coroutines of the gather / await under way, in order
  result,      \* the value summarize_text returned, <<>> before
  error,       \* <<phase, index>> of the call whose exception ended the run
  started,     \* generation calls started, by kind
  acquires,    \* tokens the run's calls took from the rate limiter
  ended,       \* calls of the run that returned or raised
  outer,       \* the future of the asyncio.gather under way: <<>> while it
               \* is not done, Results, or its exception, <<phase, index>> of
               \* the first call that raised
  passLog      \* the batch sizes of every reduce pass

orchVars ==
  <<text, pc, chunks, summaries, calls, result, error, started, acquires,
    ended, outer, passLog>>

\* the generation service: the text generated for a prompt
Response(sys, human) == <<sys>> \o human \o <<RESPONSE_END>>

\* "\n\n---\n\n".join(summaries)
RECURSIVE JoinSummaries(_)
JoinSummaries(ss) ==
  IF ss = <<>> THEN <<>>
  ELSE IF Len(ss) = 1 THEN ss[1]
  ELSE ss[1] \o <<SUMMARY_SEPARATOR>> \o JoinSummaries(Tail(ss))

\* the coroutine _summarize_chunk(chunk), not yet run
_summarize_chunk(chunk) ==
  [sys |-> MAP_SYSTEM, human |-> TextTokens(chunk), n |-> 1,
   status |-> "pending", slot |-> 0]

\* the coroutine _combine_summaries(summaries), not yet run
_combine_summaries(ss) ==
  [sys |-> REDUCE_SYSTEM, human |-> JoinSummaries(ss), n |-> Len(ss),
   status |-> "pending", slot |-> 0]

\* (i stepping by 1: as many batches as summaries)
BatchesStepOne(ss) ==
  [b \in 1..Len(ss) |->
     SubSeq(ss, b, Min(b + max_summaries_per_reduce - 1, Len(ss)))]

\* (slices with their end included: K + 1 summaries in a batch)
BatchesInclusive(ss) ==
  LET nb == (Len(ss) + max_summaries_per_reduce - 1) \div max_summaries_per_reduce
  IN [b \in 1..nb |->
        SubSeq(ss, (b - 1) * max_summaries_per_reduce + 1,
                   Min(b * max_summaries_per_reduce + 1, Len(ss)))]

\* chunk_summaries[i:i + max_summaries_per_reduce] for i in range(0, len, max)
Batches(ss) ==
  LET nb == (Len(ss) + max_summaries_per_reduce - 1) \div max_summaries_per_reduce
  IN [b \in 1..nb |->
        SubSeq(ss, (b - 1) * max_summaries_per_reduce + 1,
                   Min(b * max_summaries_per_reduce, Len(ss)))]

GatherSlotByCompletion(i, k) == k

\* asyncio.gather: the position, in the list it returns, of the result of
\* the i-th awaitable, which is the k-th to complete
GatherSlot(i, k) == i

NumDone(cs) == Cardinality({i \in 1..Len(cs) : cs[i].status = "done"})

\* response.content of the call c
Content(c) == Response(c.sys, c.human)

\* list(await asyncio.gather(*cs)) once every call has returned
GatherResults(cs) ==
  [k \in 1..Len(cs) |->
     LET at == {i \in 1..Len(cs) : cs[i].slot = k}
     IN IF at = {} THEN <<>> ELSE Content(cs[CHOOSE i \in at : TRUE])]

\* (a wait that returns before the calls have completed)
AwaitingNone(cs) == FALSE

\* asyncio.gather over the calls cs: a call has not come to its end
Awaiting(cs) ==
  \E j \in 1..Len(cs) : cs[j].status \in {"pending", "sent"}

Texts(maxN) ==
  LET paras(n) == [i \in 1..n |-> <<i, 0, ParaLen>>]
  IN { [lead |-> 0, paras |-> paras(n), trail |-> 0] : n \in 0..maxN }
     \cup { [lead |-> l, paras |-> paras(n), trail |-> r] :
              n \in 0..2, l \in 0..MaxPad, r \in 0..MaxPad }

\* `if chunk_count <= 1` (line 125)
IsSmallDocumentNever(cs) == Len(cs) < 1

IsSmallDocument(cs) == Len(cs) <= 1

\* `while len(chunk_summaries) > max_summaries_per_reduce` (line 142)
TooManySummariesOffByOne(ss) == Len(ss) >= max_summaries_per_reduce

TooManySummaries(ss) == Len(ss) > max_summaries_per_reduce

InitOrch(maxN) ==
  /\ text \in Texts(maxN)
  /\ pc = "init"
  /\ chunks = <<>>
  /\ summaries = <<>>
  /\ calls = <<>>
  /\ result = <<>>
  /\ error = <<>>
  /\ started = [map |-> 0, reduce |-> 0, final |-> 0]
  /\ acquires = 0
  /\ ended = 0
  /\ outer = <<>>
  /\ passLog = <<>>

\* summarize_text up to its first await (lines 115-135)
Start ==
  /\ pc = "init"
  /\ IF IsBlank(text)
     THEN /\ pc' = "done"
          /\ result' = <<NO_CONTENT>>
          /\ UNCHANGED <<chunks, calls, started>>
     ELSE LET cs == split_text_into_chunks(text) IN
          /\ chunks' = cs
          /\ result' = result
          /\ IF IsSmallDocument(cs)
             THEN /\ pc' = "single"
                  /\ calls' = << _summarize_chunk(IF cs # <<>> THEN cs[1] ELSE text) >>
                  /\ started' = [started EXCEPT !.map = 1]
             ELSE /\ pc' = "map"
                  /\ calls' = [i \in 1..Len(cs) |-> _summarize_chunk(cs[i])]
                  /\ started' = [started EXCEPT !.map = Len(cs)]
  /\ UNCHANGED <<text, summaries, error, acquires, ended, outer, passLog>>

\* summarize_text, resumed with the results of the gather over the calls cs,
\* to its next await (136-154)
Reduce(cs) ==
  \E ss \in {GatherResults(cs)} :   \* chunk_summaries, evaluated once
  /\ summaries' = ss
  /\ result' = result
  /\ IF TooManySummaries(ss)
     THEN LET bs == Batches(ss) IN
          /\ pc' = "reduce"
          /\ calls' = [b \in 1..Len(bs) |-> _combine_summaries(bs[b])]
          /\ started' = [started EXCEPT !.reduce = @ + Len(bs)]
          /\ passLog' = Append(passLog, [b \in 1..Len(bs) |-> Len(bs[b])])
     ELSE /\ pc' = "final"
          /\ calls' = << _combine_summaries(ss) >>
          /\ started' = [started EXCEPT !.final = @ + 1]
          /\ passLog' = passLog

\* the generation call i, suspended in llm.ainvoke at rate_limiter.aacquire,
\* is granted its token and sends its request; it then awaits the provider.
\* The calls left running by a gather that has raised go on in the same way.
\* In the specifications that keep no clock the grant can come at any time;
\* in SpecUpload it is the limiter's (CallPolls).
CallAcquires(i) ==
  /\ pc \in {"single", "map", "reduce", "final", "failed"}
  /\ i \in 1..Len(calls)
  /\ calls[i].status = "pending"
  /\ calls' = [calls EXCEPT ![i].status = "sent"]
  /\ acquires' = acquires + 1
  /\ UNCHANGED <<text, pc, chunks, summaries, result, error, started, ended,
                 outer, passLog>>

\* a call of the gather under way has raised: its done-callback is, or was,
\* the first to reach the gather with an exception
SomeCallRaised == \E i \in 1..Len(calls) : calls[i].status = "raised"

\* the provider answers the request of the generation call i: llm.ainvoke
\* returns the text. A call that summarize_text awaits itself (lines 127,
\* 154) runs in its task, which goes on to its return; a call of a gather is a
\* task of its own, which ends here: the gather learns of it by its
\* done-callback (_done_callback) and summarize_text stays suspended until
\* the event loop resumes it (Resume)
CallReturns(i) ==
  /\ pc \in {"single", "map", "reduce", "final"}
  /\ i \in 1..Len(calls)
  /\ calls[i].status = "sent"
  /\ ~SomeCallRaised
  /\ ended' = ended + 1
  /\ calls' = [calls EXCEPT ![i].status = "done",
                            ![i].slot = GatherSlot(i, NumDone(calls) + 1)]
  /\ IF pc \in {"single", "final"}
     THEN /\ pc' = "done"
          /\ result' = Content(calls'[1])
     ELSE UNCHANGED <<pc, result>>
  /\ UNCHANGED <<text, chunks, summaries, error, started, acquires, outer,
                 passLog>>

\* (an exception that is taken for the answer of the call)
CallRaisesSwallowed(i) ==
  /\ pc \in {"single", "map", "reduce", "final"}
  /\ i \in 1..Len(calls)
  /\ calls[i].status = "sent"
  /\ ~SomeCallRaised
  /\ ended' = ended + 1
  /\ calls' = [calls EXCEPT ![i].status = "raised", ![i].slot = i]
  /\ IF pc \in {"single", "final"}
     THEN /\ pc' = "done"
          /\ result' = Content(calls'[1])
     ELSE UNCHANGED <<pc, result>>
  /\ UNCHANGED <<text, chunks, summaries, error, started, acquires, outer,
                 passLog>>

\* the request of the generation call i fails: llm.ainvoke raises. In a call
\* that summarize_text awaits itself the exception leaves summarize_text in
\* the same step. A call of a gather ends as a task with the exception: the
\* gather learns of it by the done-callback of the task (_done_callback), the
\* other calls of the gather are not cancelled, and summarize_text stays
\* suspended until the event loop resumes it (Resume)
CallRaises(i) ==
  /\ pc \in {"single", "map", "reduce", "final"}
  /\ i \in 1..Len(calls)
  /\ calls[i].status = "sent"
  /\ ~SomeCallRaised
  /\ ended' = ended + 1
  /\ calls' = [j \in 1..Len(calls) |->
                 [calls[j] EXCEPT !.slot = 0,
                                  !.status = IF j = i THEN "raised" ELSE @]]
  /\ IF pc \in {"single", "final"}
     THEN /\ pc' = "failed"
          /\ error' = <<pc, i>>
     ELSE UNCHANGED <<pc, error>>
  /\ UNCHANGED <<text, chunks, summaries, result, started, acquires, outer,
                 passLog>>

\* a call of a gather comes to its end after a call of the gather has raised,
\* be it before or after the gather has taken the exception and before or
\* after summarize_text is resumed: the done-callbacks run in the order in
\* which the calls ended, so that the gather has its exception when it learns
\* of this call, and drops its result or its exception
CallEndsLate(i) ==
  /\ pc \in {"map", "reduce", "failed"}
  /\ SomeCallRaised
  /\ i \in 1..Len(calls)
  /\ calls[i].status = "sent"
  /\ ended' = ended + 1
  /\ calls' = [calls EXCEPT ![i].status = "done"]
  /\ UNCHANGED <<text, pc, chunks, summaries, result, error, started, acquires,
                 outer, passLog>>

\* the value asyncio.gather sets on its future once every call has returned
Results == <<"results">>

\* (return_exceptions = True: the exception of a call is one of the results)
_done_callback_return_exceptions ==
  /\ pc \in {"map", "reduce"}
  /\ outer = <<>>
  /\ ~Awaiting(calls)
  /\ outer' = Results
  /\ UNCHANGED <<text, pc, chunks, summaries, calls, result, error, started,
                 acquires, ended, passLog>>

\* the event loop runs the done-callbacks of the calls of the gather
\* (asyncio.gather, lines 133-135, 148-150), up to the one that makes the
\* future of the gather done: the callback of the first call that raised sets
\* its exception on the future; when no call has raised, the callback of the
\* last call to return sets the list of results. This schedules summarize_text
_done_callback ==
  /\ pc \in {"map", "reduce"}
  /\ outer = <<>>
  /\ IF SomeCallRaised
     THEN outer' = <<pc, CHOOSE i \in 1..Len(calls) : calls[i].status = "raised">>
     ELSE /\ ~Awaiting(calls)
          /\ outer' = Results
  /\ UNCHANGED <<text, pc, chunks, summaries, calls, result, error, started,
                 acquires, ended, passLog>>

\* the event loop resumes summarize_text, suspended in a gather whose future
\* is done (lines 133-135, 148-150): with the exception of the gather, which
\* ends it, or with the results of the calls, and it runs to its next await
Resume ==
  /\ pc \in {"map", "reduce"}
  /\ outer # <<>>
  /\ IF outer = Results
     THEN /\ Reduce(calls)
          /\ outer' = <<>>
          /\ error' = error
     ELSE /\ pc' = "failed"
          /\ error' = outer
          /\ UNCHANGED <<summaries, calls, result, started, outer, passLog>>
  /\ UNCHANGED <<text, chunks, acquires, ended>>

\* ------------------------------------------------------------ rate limiter
\* InMemoryRateLimiter(requests_per_second = RATE_LIMIT_RPM / 60,
\* check_every_n_seconds = 0.5, max_bucket_size = 1), shared by every call.
\* The clock counts ticks of 1 / TicksPerToken of the refill period; tokens are
\* counted in units of 1 / TicksPerToken token, so that one tick refills one
\* unit. check_every_n_seconds is shorter than a tick: a caller whose
\* _consume failed has slept and may try again at any time. The clock is
\* started by the first use of the limiter.
VARIABLES
  provider,          \* LLM_PROVIDER
  api_key,           \* the API key of the provider LLM_PROVIDER is set
  now,               \* the monotonic clock, in ticks
  last,              \* rate_limiter.last, -1 for None
  available_tokens,  \* rate_limiter.available_tokens, in units
  cpc,               \* per call: "idle", "acquire", "request"
  ckind,             \* per call: "map" (_summarize_chunk) or "combine"
  ctoken,            \* per call: it took a token for the request under way
  grants,            \* the times at which _consume returned True
  credited,          \* the units ever added to the bucket
  requests           \* the requests sent to the provider

limVars ==
  <<provider, api_key, now, last, available_tokens, cpc, ckind, ctoken, grants,
    credited, requests>>

\* ------------------------------------------------------------- upload_pdf
\* The POST /upload handler of app/main.py. The uploaded file is modelled by
\* what the handler tests of it; the database by the Document rows committed.
VARIABLES
  upload,      \* the request: [ext, size, pages], see Uploads
  upc,         \* "none", "start", "reading", "saved", "summarizing", "commit",
               \* "refresh", "responded"
  file,        \* the file filepath exists in UPLOAD_DIR
  pendingDoc,  \* the summary of the Document added to the session, <<>> if none
  rows,        \* the summaries of the Document rows committed
  response     \* <<>>, or [status, summary] once the request has ended

upVars == <<upload, upc, file, pendingDoc, rows, response>>

vars == <<orchVars, limVars, upVars>>

\* no request is being handled
NoUpload ==
  /\ upload = [ext |-> TRUE, size |-> TRUE, pages |-> "ok"]
  /\ upc = "none"
  /\ file = FALSE
  /\ pendingDoc = <<>>
  /\ rows = <<>>
  /\ response = <<>>

\* the requests: the extension is allowed or not, the content is within
\* MAX_FILE_SIZE or not, and extract_text_from_pdf returns the text, raises
\* PDFTooManyPagesError or raises another exception
Uploads ==
  [ext : BOOLEAN, size : BOOLEAN, pages : {"ok", "too_many", "unreadable"}]

\* raise HTTPException(status_code = code)
HTTPException(code) == [status |-> code, summary |-> <<>>]

\* lines 43-48: the extension is tested, then the handler awaits the content
\* of the upload
Receive ==
  /\ upc = "start"
  /\ IF ~upload.ext
     THEN /\ response' = HTTPException(400)
          /\ upc' = "responded"
     ELSE /\ upc' = "reading"
          /\ response' = response
  /\ UNCHANGED <<upload, file, pendingDoc, rows>>

\* lines 51-57: the content has been read; its size is tested, then the file
\* is saved
Save ==
  /\ upc = "reading"
  /\ IF ~upload.size
     THEN /\ response' = HTTPException(400)
          /\ upc' = "responded"
          /\ file' = file
     ELSE /\ file' = TRUE
          /\ upc' = "saved"
          /\ response' = response
  /\ UNCHANGED <<upload, pendingDoc, rows>>

\* lines 59-69 and the handlers 89-94: the text is extracted and
\* summarize_text(text) is called; a PDFTooManyPagesError removes the file and
\* gives 400; any other exception, the HTTPException(400) of a text without
\* characters included, removes the file and gives 500
Extract ==
  /\ upc = "saved"
  /\ IF upload.pages = "too_many"
     THEN /\ file' = FALSE
          /\ response' = HTTPException(400)
          /\ upc' = "responded"
     ELSE IF upload.pages = "unreadable" \/ IsBlank(text)
     THEN /\ file' = FALSE
          /\ response' = HTTPException(500)
          /\ upc' = "responded"
     ELSE /\ upc' = "summarizing"
          /\ UNCHANGED <<file, response>>
  /\ UNCHANGED <<upload, pendingDoc, rows>>

\* lines 69-79: summarize_text has returned; the Document is built with the
\* summary and added to the session
SummaryReturned ==
  /\ upc = "summarizing"
  /\ pc = "done"
  /\ pendingDoc' = result
  /\ upc' = "commit"
  /\ UNCHANGED <<upload, file, rows, response>>

\* lines 69, 92-94: summarize_text has raised
SummaryRaised ==
  /\ upc = "summarizing"
  /\ pc = "failed"
  /\ file' = FALSE
  /\ response' = HTTPException(500)
  /\ upc' = "responded"
  /\ UNCHANGED <<upload, pendingDoc, rows>>

\* line 79: db.commit() commits the row (ok) or raises (lines 92-94)
Commit(ok) ==
  /\ upc = "commit"
  /\ IF ok
     THEN /\ rows' = Append(rows, pendingDoc)
          /\ upc' = "refresh"
          /\ UNCHANGED <<file, response>>
     ELSE /\ file' = FALSE
          /\ response' = HTTPException(500)
          /\ upc' = "responded"
          /\ rows' = rows
  /\ UNCHANGED <<upload, pendingDoc>>

\* lines 80-87: db.refresh(document) reloads the row and the response is
\* built from it (ok), or it raises (lines 92-94)
Refresh(ok) ==
  /\ upc = "refresh"
  /\ IF ok
     THEN /\ response' = [status |-> 200, summary |-> rows[Len(rows)]]
          /\ file' = file
     ELSE /\ file' = FALSE
          /\ response' = HTTPException(500)
  /\ upc' = "responded"
  /\ UNCHANGED <<upload, pendingDoc, rows>>


Providers == {"openai", "gemini", "ionet"}
\* values of LLM_PROVIDER: the providers and names that are none of them
ProviderNames == Providers \cup {"anthropic", ""}
Callers == 1..NumCallers
TOKEN == TicksPerToken                       \* one token, in units
WINDOW == RATE_LIMIT_RPM * TicksPerToken     \* 60 seconds, in ticks
MaxTime == MaxGrants * TicksPerToken

\* raise ValueError(...)
ValueError == [class |-> "ValueError"]

_create_llm_unthrottled_ionet(p, key) ==
  IF p = "openai"
  THEN IF ~key THEN ValueError
       ELSE [class |-> "ChatOpenAI", rate_limiter |-> TRUE]
  ELSE IF p = "gemini"
  THEN IF ~key THEN ValueError
       ELSE [class |-> "ChatGoogleGenerativeAI", rate_limiter |-> TRUE]
  ELSE IF p = "ionet"
  THEN IF ~key THEN ValueError
       ELSE [class |-> "ChatOpenAI", rate_limiter |-> FALSE]
  ELSE ValueError

\* _create_llm: the chat model of the configured provider; ValueError when
\* the API key of the provider is not set or the provider is not known
_create_llm(p, key) ==
  IF p = "openai"
  THEN IF ~key THEN ValueError
       ELSE [class |-> "ChatOpenAI", rate_limiter |-> TRUE]
  ELSE IF p = "gemini"
  THEN IF ~key THEN ValueError
       ELSE [class |-> "ChatGoogleGenerativeAI", rate_limiter |-> TRUE]
  ELSE IF p = "ionet"
  THEN IF ~key THEN ValueError
       ELSE [class |-> "ChatOpenAI", rate_limiter |-> TRUE]
  ELSE ValueError

\* line 67; when _create_llm raises, the import of the module fails and no
\* generation call is ever made
llm == _create_llm(provider, api_key)

RefilledUncapped(tokens, elapsed) ==
  IF elapsed >= TOKEN THEN tokens + elapsed ELSE tokens

RefilledNever(tokens, elapsed) == tokens

\* the units in the bucket once _consume has refilled it: a refill happens
\* only when a whole token has accrued since `last`, and the bucket is capped
Refilled(tokens, elapsed) ==
  Min(IF elapsed >= TOKEN THEN tokens + elapsed ELSE tokens,
      max_bucket_size * TOKEN)

ConsumedNothing(tokens) == tokens

\* the units left when _consume grants a token
Consumed(tokens) == tokens - TOKEN

NewLastStale(start, t, refill) == start

\* rate_limiter.last after _consume at time t: moved only by a refill
NewLast(start, t, refill) == IF refill THEN t ELSE start

InitLim ==
  /\ provider \in ProviderNames
  /\ api_key \in BOOLEAN
  /\ now = 0
  /\ last = -1
  /\ available_tokens = 0
  /\ cpc = [c \in Callers |-> "idle"]
  /\ ckind = [c \in Callers |-> "map"]
  /\ ctoken = [c \in Callers |-> FALSE]
  /\ grants = <<>>
  /\ credited = 0
  /\ requests = 0

\* _summarize_chunk / _combine_summaries reach `await llm.ainvoke(messages)`:
\* a model with a rate limiter acquires before it sends the request
Invoke(c, kind) ==
  /\ llm # ValueError
  /\ cpc[c] = "idle"
  /\ ckind' = [ckind EXCEPT ![c] = kind]
  /\ ctoken' = ctoken
  /\ IF llm.rate_limiter
     THEN /\ cpc' = [cpc EXCEPT ![c] = "acquire"]
          /\ requests' = requests
     ELSE /\ cpc' = [cpc EXCEPT ![c] = "request"]
          /\ requests' = requests + 1
  /\ UNCHANGED <<provider, api_key, now, last, available_tokens, grants,
                 credited>>

\* rate_limiter._consume at the current time returns True: with the refill
\* there is a whole token in the bucket
consumes ==
  LET start == IF last = -1 THEN now ELSE last
  IN Refilled(available_tokens, now - start) >= TOKEN

\* rate_limiter._consume, run under the lock in one step: the bucket is
\* refilled and, when it holds a token, the token is taken. With keep = FALSE
\* the clock restarts at every refill (the limiter only looks at now - last)
\* and the history variables grants, credited and requests are not kept.
_consume(keep) ==
  LET start == IF last = -1 THEN now ELSE last
      elapsed == now - start
      refill == elapsed >= TOKEN
      tokens == Refilled(available_tokens, elapsed)
      newlast == NewLast(start, now, refill)
  IN /\ credited' = IF keep THEN credited + (tokens - available_tokens)
                            ELSE credited
     /\ IF keep THEN /\ last' = newlast
                     /\ now' = now
                ELSE /\ last' = 0
                     /\ now' = now - newlast
     /\ IF tokens >= TOKEN
        THEN /\ available_tokens' = Consumed(tokens)
             /\ grants' = IF keep THEN Append(grants, now) ELSE grants
             /\ requests' = IF keep THEN requests + 1 ELSE requests
        ELSE /\ available_tokens' = tokens
             /\ UNCHANGED <<grants, requests>>

\* one round of `while not self._consume(): await asyncio.sleep(...)`
Poll(c, keep) ==
  /\ cpc[c] = "acquire"
  /\ _consume(keep)
  /\ IF consumes
     THEN /\ cpc' = [cpc EXCEPT ![c] = "request"]
          /\ ctoken' = [ctoken EXCEPT ![c] = TRUE]
     ELSE UNCHANGED <<cpc, ctoken>>
  /\ UNCHANGED <<provider, api_key, ckind>>

\* the provider answers (or fails): ainvoke returns or raises
Respond(c) ==
  /\ cpc[c] = "request"
  /\ cpc' = [cpc EXCEPT ![c] = "idle"]
  /\ ctoken' = [ctoken EXCEPT ![c] = FALSE]
  /\ ckind' = [ckind EXCEPT ![c] = "map"]
  /\ UNCHANGED <<provider, api_key, now, last, available_tokens, grants,
                 credited, requests>>

\* time passes
Tick(limit) ==
  /\ last # -1
  /\ now < limit
  /\ now' = now + 1
  /\ UNCHANGED <<provider, api_key, last, available_tokens, cpc, ckind, ctoken,
                 grants, credited, requests>>

\* call i of the run, inside llm.ainvoke, makes one round of the limiter's
\* `while not self._consume()`: it takes its token when there is one
CallPolls(i) ==
  /\ i \in 1..Len(calls)
  /\ calls[i].status = "pending"
  /\ _consume(TRUE)
  /\ IF consumes THEN CallAcquires(i) ELSE UNCHANGED orchVars
  /\ UNCHANGED <<provider, api_key, cpc, ckind, ctoken>>

\* ---------------------------------------------------------- specifications
\* Spec: one run of summarize_text in which every generation call returns,
\* in every order in which its calls take their tokens and come to their end
Init ==
  InitOrch(MaxChunks) /\ InitLim /\ provider = "gemini" /\ api_key /\ NoUpload

Next ==
  \/ Start /\ UNCHANGED <<limVars, upVars>>
  \/ \E i \in 1..Len(calls) : CallAcquires(i) /\ UNCHANGED <<limVars, upVars>>
  \/ \E i \in 1..Len(calls) : CallReturns(i) /\ UNCHANGED <<limVars, upVars>>
  \/ _done_callback /\ UNCHANGED <<limVars, upVars>>
  \/ Resume /\ UNCHANGED <<limVars, upVars>>

Spec == Init /\ [][Next]_vars

\* SpecFail: one run of summarize_text over up to MaxFailChunks chunks in
\* which any call of any await or gather can fail. The calls of a gather of at
\* most MaxConcurrent calls take their tokens and end in every order; those of
\* a larger gather take their tokens in index order, at most MaxInFlight of
\* them wait for the provider at a time, and these end in every order. The
\* event loop runs the callbacks and the tasks that are ready: weak fairness
\* of _done_callback and of Resume.
InFlight == Cardinality({j \in 1..Len(calls) : calls[j].status = "sent"})

TakesTurn(i) ==
  \/ Len(calls) <= MaxConcurrent
  \/ /\ \A j \in 1..(i - 1) : calls[j].status # "pending"
     /\ InFlight < MaxInFlight

InitFail ==
  InitOrch(MaxFailChunks) /\ InitLim /\ provider = "gemini" /\ api_key
    /\ NoUpload

NextFail ==
  \/ Start /\ UNCHANGED <<limVars, upVars>>
  \/ \E i \in 1..Len(calls) :
       TakesTurn(i) /\ CallAcquires(i) /\ UNCHANGED <<limVars, upVars>>
  \/ \E i \in 1..Len(calls) : CallReturns(i) /\ UNCHANGED <<limVars, upVars>>
  \/ \E i \in 1..Len(calls) : CallRaises(i) /\ UNCHANGED <<limVars, upVars>>
  \/ \E i \in 1..Len(calls) : CallEndsLate(i) /\ UNCHANGED <<limVars, upVars>>
  \/ _done_callback /\ UNCHANGED <<limVars, upVars>>
  \/ Resume /\ UNCHANGED <<limVars, upVars>>

SpecFail ==
  /\ InitFail
  /\ [][NextFail]_vars
  /\ WF_vars(_done_callback /\ UNCHANGED <<limVars, upVars>>)
  /\ WF_vars(Resume /\ UNCHANGED <<limVars, upVars>>)

\* SpecSeq: one run over a long document in which every generation call
\* returns, the calls of a gather served one after the other in index order:
\* each takes its token and gets its answer before the next. The run is taken
\* at its first await (line 135): a text of n paragraphs of ParaLen
\* characters has been split into its n paragraphs, as Start does in Spec, and
\* the n map calls are under way. Every call comes to its end and the event
\* loop runs the callbacks of the gather and resumes summarize_text: weak
\* fairness of the step.
InTurn(i) == \A j \in 1..(i - 1) : calls[j].status = "done"

\* split_text_into_chunks of the text of n paragraphs of ParaLen characters
ParagraphChunks(n) ==
  [i \in 1..n |-> [lead |-> 0, paras |-> << <<i, 0, ParaLen>> >>, trail |-> 0]]

InitSeq ==
  /\ \E n \in 2..MaxSeqChunks :
       /\ text = [lead |-> 0, paras |-> [i \in 1..n |-> <<i, 0, ParaLen>>],
                  trail |-> 0]
       /\ chunks = ParagraphChunks(n)
       /\ calls = [i \in 1..n |-> _summarize_chunk(ParagraphChunks(n)[i])]
       /\ started = [map |-> n, reduce |-> 0, final |-> 0]
  /\ pc = "map"
  /\ summaries = <<>>
  /\ result = <<>>
  /\ error = <<>>
  /\ acquires = 0
  /\ ended = 0
  /\ outer = <<>>
  /\ passLog = <<>>
  /\ InitLim
  /\ provider = "gemini" /\ api_key
  /\ NoUpload

NextSeq ==
  \/ \E i \in 1..Len(calls) :
       InTurn(i) /\ CallAcquires(i) /\ UNCHANGED <<limVars, upVars>>
  \/ \E i \in 1..Len(calls) :
       InTurn(i) /\ CallReturns(i) /\ UNCHANGED <<limVars, upVars>>
  \/ _done_callback /\ UNCHANGED <<limVars, upVars>>
  \/ Resume /\ UNCHANGED <<limVars, upVars>>

SpecSeq == InitSeq /\ [][NextSeq]_vars /\ WF_vars(NextSeq)

\* SpecLimiter: generation calls of concurrent runs on the shared limiter,
\* over MaxGrants refill periods
InitLimiter ==
  InitOrch(0) /\ text.lead = 0 /\ text.trail = 0 /\ InitLim
    /\ provider = "gemini" /\ api_key
    /\ NoUpload

NextLimiter ==
  \/ \E c \in Callers : Invoke(c, "map") /\ UNCHANGED <<orchVars, upVars>>
  \/ \E c \in Callers : Poll(c, TRUE) /\ UNCHANGED <<orchVars, upVars>>
  \/ \E c \in Callers : Respond(c) /\ UNCHANGED <<orchVars, upVars>>
  \/ Tick(MaxTime) /\ UNCHANGED <<orchVars, upVars>>

SpecLimiter == InitLimiter /\ [][NextLimiter]_vars

\* SpecCalls: the map and combine calls under each provider, over two refill
\* periods
InitCalls ==
  InitOrch(0) /\ text.lead = 0 /\ text.trail = 0 /\ InitLim /\ NoUpload

NextCalls ==
  \/ \E c \in Callers, k \in {"map", "combine"} :
       Invoke(c, k) /\ UNCHANGED <<orchVars, upVars>>
  \/ \E c \in Callers : Poll(c, TRUE) /\ UNCHANGED <<orchVars, upVars>>
  \/ \E c \in Callers : Respond(c) /\ UNCHANGED <<orchVars, upVars>>
  \/ Tick(2 * TicksPerToken) /\ UNCHANGED <<orchVars, upVars>>

SpecCalls == InitCalls /\ [][NextCalls]_vars

\* SpecFair: the shared limiter for ever, callers arriving again and again.
\* The event loop runs every task that can make progress, the provider
\* answers every request and time passes: weak fairness of each step. The
\* clock is kept relative to the last refill and stops once the bucket can
\* hold no more.
NextFair ==
  \/ \E c \in Callers, k \in {"map", "combine"} :
       Invoke(c, k) /\ UNCHANGED <<orchVars, upVars>>
  \/ \E c \in Callers : Poll(c, FALSE) /\ UNCHANGED <<orchVars, upVars>>
  \/ \E c \in Callers : Respond(c) /\ UNCHANGED <<orchVars, upVars>>
  \/ Tick(max_bucket_size * TOKEN) /\ UNCHANGED <<orchVars, upVars>>

SpecFair ==
  /\ InitCalls
  /\ [][NextFair]_vars
  /\ WF_vars(Tick(max_bucket_size * TOKEN) /\ UNCHANGED <<orchVars, upVars>>)
  /\ \A c \in Callers : WF_vars(Poll(c, FALSE) /\ UNCHANGED <<orchVars, upVars>>)
  /\ \A c \in Callers : WF_vars(Respond(c) /\ UNCHANGED <<orchVars, upVars>>)

\* SpecChunker: split_text_into_chunks applied to a text of at most MaxParas
\* paragraphs whose lengths lie at the edges of the splitter's cases
EdgeLens ==
  {1, CHUNK_OVERLAP - SEP_LEN, CHUNK_OVERLAP - 1, CHUNK_OVERLAP,
   CHUNK_SIZE \div 2 - 1, CHUNK_SIZE \div 2,
   CHUNK_SIZE - SEP_LEN - 1, CHUNK_SIZE - SEP_LEN, CHUNK_SIZE - 1, CHUNK_SIZE,
   CHUNK_SIZE + 1, 2 * CHUNK_SIZE - CHUNK_OVERLAP,
   2 * CHUNK_SIZE - CHUNK_OVERLAP + 1}

ChunkerTexts ==
  { [lead |-> l, paras |-> [i \in 1..Len(ls) |-> <<i, 0, ls[i]>>], trail |-> r] :
      l \in 0..MaxPad, r \in 0..MaxPad,
      ls \in UNION { [1..n -> EdgeLens] : n \in 0..MaxParas } }

InitChunker ==
  /\ text \in ChunkerTexts
  /\ pc = "init"
  /\ chunks = <<>>
  /\ summaries = <<>>
  /\ calls = <<>>
  /\ result = <<>>
  /\ error = <<>>
  /\ started = [map |-> 0, reduce |-> 0, final |-> 0]
  /\ acquires = 0
  /\ ended = 0
  /\ outer = <<>>
  /\ passLog = <<>>
  /\ InitLim
  /\ provider = "gemini" /\ api_key
  /\ NoUpload

\* chunks = split_text_into_chunks(text)
Split ==
  /\ pc = "init"
  /\ chunks' = split_text_into_chunks(text)
  /\ pc' = "chunked"
  /\ UNCHANGED <<text, summaries, calls, result, error, started, acquires, ended,
                 outer, passLog, limVars, upVars>>

NextChunker == Split

SpecChunker == InitChunker /\ [][NextChunker]_vars

\* SpecUpload: one POST /upload request, with the run of summarize_text it
\* awaits and the rate limiter its calls take their tokens from
InitUpload ==
  /\ InitOrch(MaxUploadChunks)
  /\ InitLim
  /\ provider = "gemini" /\ api_key
  /\ upload \in Uploads
  /\ upc = "start"
  /\ file = FALSE
  /\ pendingDoc = <<>>
  /\ rows = <<>>
  /\ response = <<>>

NextUpload ==
  \/ Receive /\ UNCHANGED <<orchVars, limVars>>
  \/ Save /\ UNCHANGED <<orchVars, limVars>>
  \/ Extract /\ UNCHANGED <<orchVars, limVars>>
  \/ upc = "summarizing" /\ Start /\ UNCHANGED <<limVars, upVars>>
  \/ \E i \in 1..Len(calls) : CallPolls(i) /\ UNCHANGED upVars
  \/ Tick(MaxTime) /\ UNCHANGED <<orchVars, upVars>>
  \/ \E i \in 1..Len(calls) :
       upc = "summarizing" /\ CallReturns(i) /\ UNCHANGED <<limVars, upVars>>
  \/ \E i \in 1..Len(calls) :
       upc = "summarizing" /\ CallRaises(i) /\ UNCHANGED <<limVars, upVars>>
  \/ \E i \in 1..Len(calls) : CallEndsLate(i) /\ UNCHANGED <<limVars, upVars>>
  \/ _done_callback /\ UNCHANGED <<limVars, upVars>>
  \/ upc = "summarizing" /\ Resume /\ UNCHANGED <<limVars, upVars>>
  \/ SummaryReturned /\ UNCHANGED <<orchVars, limVars>>
  \/ SummaryRaised /\ UNCHANGED <<orchVars, limVars>>
  \/ \E ok \in BOOLEAN : Commit(ok) /\ UNCHANGED <<orchVars, limVars>>
  \/ \E ok \in BOOLEAN : Refresh(ok) /\ UNCHANGED <<orchVars, limVars>>

SpecUpload == InitUpload /\ [][NextUpload]_vars

\* ================================================================= claims
NonBlank(t) == t.paras # <<>>
TotalStarted == started.map + started.reduce + started.final
Ceil(n, k) == (n + k - 1) \div k

\* C1: for an empty or whitespace-only text, summarize_text returns the
\* sentinel "No content to summarize." and starts no generation call: no map
\* call, no combine call, no token taken from the rate limiter.
C1_BlankGivesSentinel ==
  (~NonBlank(text) /\ pc # "init") =>
     /\ pc = "done"
     /\ result = <<NO_CONTENT>>
     /\ started = [map |-> 0, reduce |-> 0, final |-> 0]
     /\ acquires = 0
     /\ ended = 0
     /\ calls = <<>>

C1_Witness ==
  /\ text.paras = <<>> /\ text.lead + text.trail > 0
  /\ pc = "done" /\ result = <<NO_CONTENT>>

\* C2: for a non-blank text whose trimmed length is at most CHUNK_SIZE (one
\* chunk), the run starts exactly one map call and no combine call, and what
\* it returns is the output of that call, the summary of the trimmed text.
C2_SingleChunkOneCall ==
  (NonBlank(text) /\ TextLen(Strip(text)) <= CHUNK_SIZE /\ pc # "init") =>
     /\ chunks = << Strip(text) >>
     /\ started = [map |-> 1, reduce |-> 0, final |-> 0]
     /\ Len(calls) = 1
     /\ calls[1].sys = MAP_SYSTEM
     /\ calls[1].human = TextTokens(Strip(text))
     /\ pc \in {"single", "done", "failed"}
     /\ pc = "done" =>
          /\ result = <<MAP_SYSTEM>> \o calls[1].human \o <<RESPONSE_END>>
          /\ acquires = 1
          /\ ended = 1

C2_Witness ==
  /\ Len(text.paras) = 1 /\ text.lead > 0 /\ text.trail > 0
  /\ pc = "done" /\ started.map = 1 /\ result # <<>>

\* the combine calls of the reduce passes that start with n summaries
RECURSIVE ReducePassCalls(_)
ReducePassCalls(n) ==
  IF n > max_summaries_per_reduce
  THEN Ceil(n, max_summaries_per_reduce)
         + ReducePassCalls(Ceil(n, max_summaries_per_reduce))
  ELSE 0

\* C3: a run over N > 1 chunks whose calls all succeed makes N map calls,
\* ceil(n/K) combine calls for every reduce pass started with n > K
\* summaries, and 1 final combine call; N = 15 gives one reduce pass with
\* batches of 10 and 5 and 18 calls, and 2 <= N <= K gives N + 1 calls.
C3_CallCount ==
  (pc = "done" /\ Len(chunks) > 1) =>
     LET N == Len(chunks) IN
     /\ started = [map |-> N, reduce |-> ReducePassCalls(N), final |-> 1]
     /\ acquires = N + ReducePassCalls(N) + 1
     /\ ended = acquires
     /\ \A k \in 1..Len(passLog) :
          \A b \in 1..Len(passLog[k]) :
            passLog[k][b] \in 1..max_summaries_per_reduce
     /\ N = 15 => /\ passLog = << <<10, 5>> >>
                  /\ TotalStarted = 18
     /\ N <= max_summaries_per_reduce => /\ passLog = <<>>
                                         /\ TotalStarted = N + 1

C3_Witness ==
  /\ pc = "done" /\ Len(chunks) = 15
  /\ passLog = << <<10, 5>> >> /\ TotalStarted = 18

\* the call of the gather or await under way that raised
Raiser == CHOOSE i \in 1..Len(calls) : calls[i].status = "raised"

\* C4: when a generation call of a run raises (a map call, a combine call of
\* a reduce pass or the final combine), the run ends with that call's error
\* and returns nothing, whatever the other calls of the gather do, before or
\* after. Until it has failed the run is suspended in the gather, which has
\* the call's exception or is about to take it, and has returned nothing; it
\* does fail; a run that has failed has returned nothing.
C4_FailureEndsRun ==
  /\ [](SomeCallRaised =>
          /\ result = <<>>
          /\ \/ /\ pc = "failed"
                /\ error = <<error[1], Raiser>>
                /\ error[1] \in {"single", "map", "reduce", "final"}
                /\ error[1] \in {"map", "reduce"} => outer = error
             \/ /\ pc \in {"map", "reduce"}
                /\ error = <<>>
                /\ outer \in {<<>>, <<pc, Raiser>>})
  /\ [](outer \notin {<<>>, Results} => SomeCallRaised)
  /\ [](pc = "failed" => (result = <<>> /\ error # <<>> /\ SomeCallRaised))
  /\ [](result # <<>> => (pc = "done" /\ error = <<>>))
  /\ [][SomeCallRaised => (SomeCallRaised' /\ Raiser' = Raiser)]_vars
  /\ SomeCallRaised ~> (pc = "failed")

\* one map call of 15 raised, the other 14 came to their end, and the run
\* has failed with the error of that call
C4_Witness ==
  /\ pc = "failed" /\ Len(chunks) = 15 /\ Len(calls) = 15
  /\ error = <<"map", Raiser>>
  /\ Cardinality({i \in 1..Len(calls) : calls[i].status = "done"}) = 14
  /\ result = <<>>

C4_WitnessReduce ==
  /\ pc = "failed" /\ error # <<>> /\ error[1] = "reduce"
  /\ \A i \in 1..Len(calls) : calls[i].status \in {"done", "raised"}

\* the summary of chunk i
MapSummaryOf(i) == <<MAP_SYSTEM>> \o TextTokens(chunks[i]) \o <<RESPONSE_END>>

\* the summaries s[a..b] joined in list order
RECURSIVE JoinedInOrder(_, _, _)
JoinedInOrder(s, a, b) ==
  IF a > b THEN <<>>
  ELSE IF a = b THEN s[a]
  ELSE s[a] \o <<SUMMARY_SEPARATOR>> \o JoinedInOrder(s, a + 1, b)

\* the list a reduce pass makes of the list s: batch b, the summaries
\* K(b-1)+1 .. Kb of s, replaced by its combined summary, in batch order
AfterPass(s) ==
  [b \in 1..Ceil(Len(s), max_summaries_per_reduce) |->
     <<REDUCE_SYSTEM>>
       \o JoinedInOrder(s, max_summaries_per_reduce * (b - 1) + 1,
                        Min(max_summaries_per_reduce * b, Len(s)))
       \o <<RESPONSE_END>>]

RECURSIVE AfterPasses(_)
AfterPasses(k) ==
  IF k = 0 THEN [i \in 1..Len(chunks) |-> MapSummaryOf(i)]
  ELSE AfterPass(AfterPasses(k - 1))

\* the reduce passes whose results are in `summaries`
PassesDone ==
  IF pc = "reduce" \/ (pc = "failed" /\ error[1] = "reduce")
  THEN Len(passLog) - 1
  ELSE Len(passLog)

\* C5: whatever the order in which the calls complete, entry i of the
\* summary list after the map phase is the summary of chunk i, every reduce
\* pass replaces consecutive batches by their combined summaries in batch
\* order, and every combine prompt joins its summaries in list order.
C5_OrderPreserved ==
  /\ summaries # <<>> => summaries = AfterPasses(PassesDone)
  /\ pc = "reduce" =>
       \A b \in 1..Len(calls) :
         calls[b].human =
           JoinedInOrder(summaries, max_summaries_per_reduce * (b - 1) + 1,
                         Min(max_summaries_per_reduce * b, Len(summaries)))
  /\ pc = "final" =>
       calls[1].human = JoinedInOrder(summaries, 1, Len(summaries))
  /\ (pc = "done" /\ Len(chunks) > 1) =>
       result = <<REDUCE_SYSTEM>>
                  \o JoinedInOrder(summaries, 1, Len(summaries))
                  \o <<RESPONSE_END>>

\* a reduce pass over more than K summaries is over
C5_Witness ==
  /\ pc = "final" /\ Len(passLog) = 1 /\ Len(summaries) = 2
  /\ Len(chunks) > max_summaries_per_reduce
  /\ summaries = AfterPass([i \in 1..Len(chunks) |-> MapSummaryOf(i)])

\* the grants in the window [a, a + T]
GrantsWithin(a, T) ==
  Cardinality({k \in 1..Len(grants) : a <= grants[k] /\ grants[k] <= a + T})

\* C6: with refill rate R (one token per TOKEN ticks) and burst capacity
\* C = max_bucket_size, no window of length T holds more than C + R*T
\* completed acquisitions, for every T and any number of concurrent callers.
\* (A window holds no more grants than the window of the same length that
\* starts at its first grant.)
C6_WindowBound ==
  \A i \in 1..Len(grants) :
    \A T \in 0..MaxTime :
      GrantsWithin(grants[i], T) * TOKEN <= max_bucket_size * TOKEN + T

\* three grants, each one refill period after the one before, with another
\* caller waiting
C6_Witness ==
  /\ Len(grants) >= 3
  /\ \A k \in 1..(Len(grants) - 1) : grants[k + 1] - grants[k] = TOKEN
  /\ \E c \in Callers : cpc[c] = "acquire"

\* C7: no rolling 60-second window [t, t + 60 s) holds more than
\* RATE_LIMIT_RPM grants of the shared bucket.
C7_PerMinuteLimit ==
  \A i \in 1..Len(grants) :
    Cardinality({k \in 1..Len(grants) :
                   grants[i] <= grants[k] /\ grants[k] < grants[i] + WINDOW})
      <= RATE_LIMIT_RPM

\* RATE_LIMIT_RPM grants within one window of 60 seconds
C7_Witness ==
  /\ Len(grants) >= RATE_LIMIT_RPM
  /\ grants[RATE_LIMIT_RPM] - grants[1] < WINDOW
  /\ \E c, d \in Callers : c # d /\ cpc[c] = "request" /\ cpc[d] = "acquire"

\* C8: grants are never double-issued: every grant takes exactly one token
\* out of the bucket (the units credited are the units granted plus the units
\* left), every caller that proceeds holds a grant of its own, and the bucket
\* never holds less than zero or more than its capacity.
C8_NoDoubleGrant ==
  /\ available_tokens >= 0
  /\ available_tokens <= max_bucket_size * TOKEN
  /\ Len(grants) * TOKEN + available_tokens = credited
  /\ credited <= now
  /\ requests = Len(grants)
  /\ Cardinality({c \in Callers : cpc[c] = "request"}) <= Len(grants)

\* a caller has been granted the one token while another was acquiring too
C8_Witness ==
  /\ Len(grants) >= 2 /\ available_tokens = 0
  /\ grants[Len(grants)] = now
  /\ \E c, d \in Callers :
       c # d /\ cpc[c] = "request" /\ ctoken[c] /\ cpc[d] = "acquire"

\* C9: under each of the three providers, every generation call (map or
\* combine) has taken a token from the shared limiter before its request is
\* sent: no request without a grant.
C9_AcquireBeforeRequest ==
  /\ \A c \in Callers : cpc[c] = "request" => ctoken[c]
  /\ requests = Len(grants)

\* a combine call of the io.net provider has sent its request
C9_Witness ==
  /\ provider = "ionet"
  /\ \E c \in Callers : cpc[c] = "request" /\ ckind[c] = "combine" /\ ctoken[c]
  /\ requests >= 1

\* (the claim as stated) C10: every caller suspended in acquire is eventually
\* granted a token, even when other callers keep arriving.
C10_NoStarvation ==
  \A c \in Callers : (cpc[c] = "acquire") ~> (cpc[c] = "request")

\* C10, amended: a caller stays suspended in acquire for ever only if other
\* callers are granted tokens again and again: the limiter never withholds
\* tokens from every waiting caller.
C10_NoLockout ==
  \A c \in Callers :
    <>[](cpc[c] = "acquire")
      => []<>(\E d \in Callers : d # c /\ cpc[d] = "request")

\* a caller is still acquiring when another one is granted the token
C10_Witness ==
  /\ \E c, d \in Callers :
       c # d /\ cpc[c] = "acquire" /\ cpc[d] = "request" /\ ctoken[d]
  /\ available_tokens = 0 /\ now = 0 /\ last = 0

\* ---------------------------------------------------------------- C11
\* the least e with k^e >= n, i.e. ceil(log_k(n)), for n >= 1
CeilLog(k, n) == CHOOSE e \in 0..n : k^e >= n /\ (e = 0 \/ k^(e - 1) < n)

\* the batching loop has ended: the final combine is under way or has returned
LoopEnded == pc \in {"final", "done"}

\* passes of the batching loop made so far by the run
ReducePasses == Len(passLog)

\* C11 as stated: a run over N > K chunks makes ceil(log_K(N)) passes of
\* the batching loop. (Violated: 11 chunks are reduced by one pass, and
\* ceil(log_10(11)) = 2.)
C11_PassesCeilLog ==
  (LoopEnded /\ Len(chunks) > max_summaries_per_reduce)
    => ReducePasses = CeilLog(max_summaries_per_reduce, Len(chunks))

\* C11 amended: a run over N > K chunks makes ceil(log_K(N)) - 1 passes of
\* the batching loop; the final combine is the ceil(log_K(N))-th level of the
\* reduction.
C11_PassesCeilLogMinusOne ==
  (LoopEnded /\ Len(chunks) > max_summaries_per_reduce)
    => ReducePasses = CeilLog(max_summaries_per_reduce, Len(chunks)) - 1

\* a run over K * K + 1 chunks has returned after two passes of the loop
C11_Witness ==
  /\ pc = "done"
  /\ Len(chunks) = max_summaries_per_reduce * max_summaries_per_reduce + 1
  /\ ReducePasses = 2

\* ---------------------------------------------------------------- C12
\* a pass of the batching loop starts: n > K summaries are outstanding and
\* ceil(n / K) < n combine calls are made, one for each summary of the next
\* round
PassShrinks ==
  ReducePasses' = ReducePasses + 1
    => /\ Len(summaries') > max_summaries_per_reduce
       /\ Len(calls') = Ceil(Len(summaries'), max_summaries_per_reduce)
       /\ Len(calls') < Len(summaries')

\* the summaries a pass returns are one for each of its calls
PassReturnsItsCalls ==
  (pc = "reduce" /\ summaries' # summaries) => Len(summaries') = Len(calls)

\* C12: every pass of the batching loop strictly decreases the number of
\* outstanding summaries, from n > K to ceil(n / K) < n; the loop ends with at
\* most K summaries; a run whose generation calls all return reaches the
\* terminal state "done".
C12_ReduceTerminates ==
  /\ [][PassShrinks /\ PassReturnsItsCalls]_vars
  /\ [](LoopEnded => Len(summaries) <= max_summaries_per_reduce)
  /\ <>(pc = "done")

\* a run over K * K chunks is done after one pass that left K summaries
C12_Witness ==
  /\ pc = "done"
  /\ Len(chunks) = max_summaries_per_reduce * max_summaries_per_reduce
  /\ ReducePasses = 1
  /\ Len(summaries) = max_summaries_per_reduce

\* ---------------------------------------------------------------- C13
\* the combine calls among the calls under way
CombineCalls == {i \in 1..Len(calls) : calls[i].sys = REDUCE_SYSTEM}

\* C13: every combine call, of a reduce pass or the final one, receives
\* between 1 and K summaries; no batch of a pass exceeds K.
C13_BatchWithinK ==
  /\ \A i \in CombineCalls : calls[i].n \in 1..max_summaries_per_reduce
  /\ \A p \in 1..Len(passLog) : \A b \in 1..Len(passLog[p]) :
        passLog[p][b] \in 1..max_summaries_per_reduce
  /\ pc \in {"reduce", "final"} => CombineCalls = 1..Len(calls)

\* a pass over K + 1 summaries is under way: a full batch and a batch of one
C13_Witness ==
  /\ pc = "reduce"
  /\ Len(summaries) = max_summaries_per_reduce + 1
  /\ Len(calls) = 2
  /\ calls[1].n = max_summaries_per_reduce
  /\ calls[2].n = 1

\* ---------------------------------------------------------------- C14
\* the input without its leading and trailing whitespace, and its length
Trimmed(t) == [lead |-> 0, paras |-> t.paras, trail |-> 0]
TrimmedLen(t) ==
  SumLens(t.paras) + (IF Len(t.paras) > 1 THEN SEP_LEN * (Len(t.paras) - 1) ELSE 0)

\* C14 as stated: for every text of trimmed length <= CHUNK_SIZE the chunker
\* returns exactly one chunk, the trimmed text. (Violated: an empty or
\* whitespace-only text has trimmed length 0 and gives no chunk.)
C14_ShortTextOneChunk ==
  (pc = "chunked" /\ TrimmedLen(text) <= CHUNK_SIZE) => chunks = << Trimmed(text) >>

\* C14 amended: for every text of trimmed length 1..CHUNK_SIZE the chunker
\* returns exactly one chunk, the trimmed text; for trimmed length 0 it
\* returns no chunk.
C14_ShortNonBlankTextOneChunk ==
  pc = "chunked" =>
    /\ TrimmedLen(text) \in 1..CHUNK_SIZE => chunks = << Trimmed(text) >>
    /\ TrimmedLen(text) = 0 => chunks = <<>>

\* a padded text of trimmed length exactly CHUNK_SIZE, longer before it is
\* trimmed, has been split into one chunk
C14_Witness ==
  /\ pc = "chunked"
  /\ TrimmedLen(text) = CHUNK_SIZE
  /\ TextLen(text) > CHUNK_SIZE
  /\ Len(chunks) = 1

\* ---------------------------------------------------------------- C15
\* C15: for every text of trimmed length > CHUNK_SIZE the chunker returns at
\* least 2 chunks, none empty and none longer than CHUNK_SIZE, also when a
\* run of characters without separator is longer than CHUNK_SIZE.
C15_LongTextChunksFit ==
  (pc = "chunked" /\ TrimmedLen(text) > CHUNK_SIZE) =>
    /\ Len(chunks) >= 2
    /\ \A c \in 1..Len(chunks) : TextLen(chunks[c]) \in 1..CHUNK_SIZE

\* a single word of CHUNK_SIZE + 1 characters has been cut in two
C15_Witness ==
  /\ pc = "chunked"
  /\ Len(text.paras) = 1
  /\ TrimmedLen(text) = CHUNK_SIZE + 1
  /\ Len(chunks) = 2
  /\ TextLen(chunks[1]) = CHUNK_SIZE

\* ---------------------------------------------------------------- C16
\* offset, in the trimmed text, of the first character of paragraph id
ParaOffset(id) == SumLens(SubSeq(text.paras, 1, id - 1)) + SEP_LEN * (id - 1)

\* offsets, in the trimmed text, of the first character of a chunk and of the
\* character after its last
ChunkStart(c) == ParaOffset(c.paras[1][1]) + c.paras[1][2]
ChunkEnd(c) ==
  LET q == c.paras[Len(c.paras)] IN ParaOffset(q[1]) + q[3]

\* a chunk is a substring of the trimmed text: consecutive paragraphs, whole
\* but for the head of its first and the tail of its last
IsSubstring(c) ==
  /\ c.lead = 0 /\ c.trail = 0 /\ c.paras # <<>>
  /\ \A k \in 1..Len(c.paras) :
        /\ c.paras[k][1] \in 1..Len(text.paras)
        /\ 0 <= c.paras[k][2] /\ c.paras[k][2] < c.paras[k][3]
        /\ c.paras[k][3] <= text.paras[c.paras[k][1]][3]
  /\ \A k \in 1..(Len(c.paras) - 1) :
        /\ c.paras[k + 1][1] = c.paras[k][1] + 1
        /\ c.paras[k][3] = text.paras[c.paras[k][1]][3]
        /\ c.paras[k + 1][2] = 0

\* characters that two consecutive chunks share
Overlap(c, d) == IF ChunkEnd(c) > ChunkStart(d) THEN ChunkEnd(c) - ChunkStart(d) ELSE 0

\* characters of the trimmed text between two consecutive chunks, in neither
Gap(c, d) == IF ChunkStart(d) > ChunkEnd(c) THEN ChunkStart(d) - ChunkEnd(c) ELSE 0

\* the chunks are substrings of the text, in order, from its first character
\* to its last, sharing at most CHUNK_OVERLAP characters
ChunksInOrder ==
  /\ \A c \in 1..Len(chunks) : IsSubstring(chunks[c])
  /\ ChunkStart(chunks[1]) = 0
  /\ ChunkEnd(chunks[Len(chunks)]) = TrimmedLen(text)
  /\ \A c \in 1..(Len(chunks) - 1) :
        /\ ChunkStart(chunks[c]) < ChunkStart(chunks[c + 1])
        /\ ChunkEnd(chunks[c]) < ChunkEnd(chunks[c + 1])
        /\ Overlap(chunks[c], chunks[c + 1]) <= CHUNK_OVERLAP

\* C16 as stated: for every text of trimmed length > CHUNK_SIZE the chunks
\* cover the trimmed text with no gap, no character being dropped, and
\* consecutive chunks overlap by at most CHUNK_OVERLAP characters. (Violated:
\* the "\n\n" between two paragraphs that go to different chunks is in
\* neither.)
C16_CoverNoGap ==
  (pc = "chunked" /\ TrimmedLen(text) > CHUNK_SIZE) =>
    /\ ChunksInOrder
    /\ \A c \in 1..(Len(chunks) - 1) : Gap(chunks[c], chunks[c + 1]) = 0

\* C16 amended: the chunks cover every character of the trimmed text but
\* separator whitespace at a chunk boundary: between two consecutive chunks
\* either nothing is left out or exactly the "\n\n" between the paragraph
\* that ends the first and the paragraph that starts the second; consecutive
\* chunks overlap by at most CHUNK_OVERLAP characters.
C16_CoverButSeparators ==
  (pc = "chunked" /\ TrimmedLen(text) > CHUNK_SIZE) =>
    /\ ChunksInOrder
    /\ \A c \in 1..(Len(chunks) - 1) :
         LET endp == chunks[c].paras[Len(chunks[c].paras)]
             startp == chunks[c + 1].paras[1]
         IN \/ Gap(chunks[c], chunks[c + 1]) = 0
            \/ /\ Gap(chunks[c], chunks[c + 1]) = SEP_LEN
               /\ endp[3] = text.paras[endp[1]][3]
               /\ startp[1] = endp[1] + 1
               /\ startp[2] = 0

\* a text whose chunks both overlap (a long paragraph cut by characters) and
\* leave out a separator (the next paragraph starts a chunk of its own)
C16_Witness ==
  /\ pc = "chunked"
  /\ TrimmedLen(text) > CHUNK_SIZE
  /\ Len(chunks) >= 3
  /\ Overlap(chunks[1], chunks[2]) = CHUNK_OVERLAP
  /\ Gap(chunks[2], chunks[3]) = SEP_LEN

\* ---------------------------------------------------------------- C17
\* calls of the gather or await under way that have not come to their end:
\* they wait for their token or for the provider
PendingCalls == {i \in 1..Len(calls) : calls[i].status \in {"pending", "sent"}}

\* every call the run started has come to its end, but for the pending calls
\* of the phase under way
EarlierPhasesCompleted == TotalStarted - ended = Cardinality(PendingCalls)

\* the calls of the phases before the one under way that have ended
EndedBefore == ended - (Len(calls) - Cardinality(PendingCalls))

\* C17: no call of a phase starts before every call of the phases before it
\* has completed; a successful run over more than one chunk issues exactly one
\* final combine call, started after every map call and every combine call of
\* the reduce passes has completed, it is the last call of the run and its
\* output is the value returned.
C17_FinalCombineLast ==
  /\ pc \in {"single", "map", "reduce", "final"} => EarlierPhasesCompleted
  /\ pc = "map" => started = [map |-> Len(calls), reduce |-> 0, final |-> 0]
  /\ pc = "reduce" =>
        /\ started.final = 0
        /\ EndedBefore = TotalStarted - Len(calls)
  /\ pc = "final" =>
        /\ started.final = 1
        /\ PendingCalls = {1}
        /\ calls[1].sys = REDUCE_SYSTEM
        /\ ended = started.map + started.reduce
        /\ acquires \in {ended, ended + 1}
  /\ (pc = "done" /\ Len(chunks) > 1) =>
        /\ started.final = 1
        /\ ended = TotalStarted
        /\ acquires = TotalStarted
        /\ Len(calls) = 1
        /\ calls[1].sys = REDUCE_SYSTEM
        /\ calls[1].human = JoinSummaries(summaries)
        /\ result = Content(calls[1])

\* a run over more than K chunks has returned the output of its final
\* combine, after its map calls and the calls of one reduce pass
C17_Witness ==
  /\ pc = "done"
  /\ Len(chunks) > max_summaries_per_reduce
  /\ started.reduce = 2
  /\ started.final = 1
  /\ ended = Len(chunks) + 3
  /\ result = Content(calls[1])

\* ---------------------------------------------------------------- C18
\* C18: once a generation call of a run has failed the run starts no
\* generation call and returns nothing: a failed map call is followed by no
\* combine call, a failed combine call of a reduce pass by no further pass and
\* no final combine.
C18_NoCallAfterFailure ==
  /\ [][SomeCallRaised =>
          /\ started' = started
          /\ passLog' = passLog
          /\ pc' \in {pc, "failed"}
          /\ pc = "failed" => pc' = "failed"
          /\ result' = <<>>
          /\ summaries' = summaries
          /\ Len(calls') = Len(calls)
          /\ \E i \in 1..Len(calls') : calls'[i].status = "raised"]_vars
  /\ [](pc = "failed" =>
          /\ SomeCallRaised
          /\ error[1] \in {"single", "map"} => started.reduce + started.final = 0
          /\ error[1] = "reduce" => started.final = 0)

\* a combine call of the reduce pass failed, the other call of the pass came
\* to its end, and no final combine was started
C18_Witness ==
  /\ pc = "failed"
  /\ error[1] = "reduce"
  /\ PendingCalls = {}
  /\ Len(calls) = 2
  /\ started.final = 0
  /\ ended = TotalStarted

\* ---------------------------------------------------------------- C19
\* the request failed after its file had been saved
FailedAfterSave ==
  /\ upc = "responded"
  /\ upload.ext /\ upload.size
  /\ response.status # 200

\* C19 as stated: a Document row is added only after summarize_text has
\* returned a summary, which is the summary stored and returned; on every
\* failure after the file was saved the file is removed, no Document row is
\* committed and the request ends with an error response. (Violated: when
\* db.refresh raises after db.commit has succeeded, the file is removed and
\* the response is an error, but the row stays committed.)
C19_FailureLeavesNothing ==
  /\ (pendingDoc # <<>> \/ rows # <<>>) => pc = "done"
  /\ pendingDoc # <<>> => pendingDoc = result
  /\ \A r \in 1..Len(rows) : rows[r] = result
  /\ (upc = "responded" /\ response.status = 200) =>
        /\ response.summary = result
        /\ rows = <<result>>
        /\ file
  /\ FailedAfterSave =>
        /\ ~file
        /\ rows = <<>>
        /\ response.status \in {400, 500}
        /\ response.summary = <<>>
====
